---- MODULE Spec2Model ----
(***************************************************************************)
(* IEF_LSP: the workspace of policy documents (src/src/workspace.rs), its  *)
(* text buffer TextSync (src/src/workspace/sync.rs) and the server loop    *)
(* that drives them (src/src/main.rs).                                     *)
(*                                                                         *)
(* A text is a sequence of one-byte characters.  The tree-sitter XML       *)
(* grammar is an external library: a character "P" or "Q" stands for an    *)
(* element whose start tag carries a PolicyId attribute, "p", "q" and "r"  *)
(* for a <BasePolicy><PolicyId>..</PolicyId></BasePolicy> element, "s" for *)
(* such an element whose content is two quote characters and nothing else, *)
(* "x" for any other byte, "\n" and "\r" for themselves.  A tree is the    *)
(* sequence of the nodes the two queries of workspace.rs capture, in       *)
(* document order, each with its byte range and its points.                *)
(***************************************************************************)
EXTENDS Integers, Sequences, FiniteSets, TLC

VARIABLES
  policies,   \* IEF_Workspace.policies: path -> [text, tree, id, base_id]
  files,      \* what read_to_string gave for each .xml file at discovery
  status,     \* "running", or "panicked" once a handler has panicked
  last,       \* the last message the main loop handled and what it produced
  nchanges,   \* didChange notifications handled so far
  raw_text,   \* the text of a TextSync, or of a query, driven on its own
  sync_last   \* the last call on that text and its result

vars == <<policies, files, status, last, nchanges, raw_text, sync_last>>

NL == "\n"
CR == "\r"

\* ------------------------------------------------------------------ bounds
\* Positions of the edits the server receives: lines 0..MaxLine, columns 0..MaxCol.
MaxLine == 1
MaxCol == 1
\* Content changes in one didChange notification.
MaxBatch == 2
\* didChange notifications over the whole run.
MaxChanges == 1
\* A TextSync driven on its own: text length and positions.
MaxSyncLen == 3
MaxSyncLine == 3
MaxSyncCol == 2
\* The texts a query is run on by itself.
MaxQueryLen == 3

\* ------------------------------------------------------------ Option<T>
None == {}
Some(x) == {x}
IsSome(o) == o # {}
Unwrap(o) == CHOOSE x \in o : TRUE

\* ------------------------------------------------------------ str::lines
\* A line that ended with "\n" loses a "\r" before it; the last line, when
\* no "\n" ends it, is kept as it is; an empty rest yields no line.
StripCR(l) ==
  IF Len(l) > 0 /\ l[Len(l)] = CR THEN SubSeq(l, 1, Len(l) - 1) ELSE l

RECURSIVE LinesFrom(_, _, _)
LinesFrom(s, i, cur) ==
  IF i > Len(s) THEN (IF cur = <<>> THEN <<>> ELSE <<cur>>)
  ELSE IF s[i] = NL THEN <<StripCR(cur)>> \o LinesFrom(s, i + 1, <<>>)
  ELSE LinesFrom(s, i + 1, Append(cur, s[i]))

Lines(s) == LinesFrom(s, 1, <<>>)

\* ------------------------------------------------------------- TextSync
\* The loop of byte_pos over lines().enumerate(), from line i with the
\* count so far.
RECURSIVE BytePosLoop(_, _, _, _, _)
BytePosLoop(ls, i, line, character, byte_count) ==
  IF i >= Len(ls) THEN byte_count
  ELSE IF i = line THEN byte_count + character
  ELSE BytePosLoop(ls, i + 1, line, character, byte_count + Len(ls[i + 1]) + 1)

byte_pos(text, line, character) == BytePosLoop(Lines(text), 0, line, character, 0)

lines(text) == Len(Lines(text))

characters(text, line) ==
  IF line < Len(Lines(text)) THEN Len(Lines(text)[line + 1]) ELSE 0

\* The outcome of an operation that may panic: ok = FALSE is the panic
\* (split_at_mut past the end of the text, usize underflow).
Panic == [ok |-> FALSE, text |-> <<>>]
Done(t) == [ok |-> TRUE, text |-> t]

\* delete_range taking end_byte as the last byte to delete, not the first
\* to keep.
delete_range_through(txt, start_byte, end_byte) ==
  IF start_byte > Len(txt) THEN Panic
  ELSE IF end_byte < start_byte THEN Panic
  ELSE IF end_byte + 1 - start_byte > Len(txt) - start_byte THEN Panic
  ELSE Done(SubSeq(txt, 1, start_byte) \o SubSeq(txt, end_byte + 2, Len(txt)))

delete_range(txt, start_byte, end_byte) ==
  IF start_byte > Len(txt) THEN Panic
  ELSE IF end_byte < start_byte THEN Panic
  ELSE IF end_byte - start_byte > Len(txt) - start_byte THEN Panic
  ELSE Done(SubSeq(txt, 1, start_byte) \o SubSeq(txt, end_byte + 1, Len(txt)))

\* insert_text pushing the inserted text after the rest of the text.
insert_text_after_rest(txt, range, byte) ==
  IF byte > Len(txt) THEN Panic
  ELSE Done(SubSeq(txt, 1, byte) \o SubSeq(txt, byte + 1, Len(txt)) \o range)

insert_text(txt, range, byte) ==
  IF byte > Len(txt) THEN Panic
  ELSE Done(SubSeq(txt, 1, byte) \o range \o SubSeq(txt, byte + 1, Len(txt)))

\* TextSync::edit on the text `text`; edit = [range |-> [start, end], new_text].
TextSyncEdit(text, edit) ==
  LET start_byte == byte_pos(text, edit.range.start.line, edit.range.start.character)
      end_byte == byte_pos(text, edit.range.end.line, edit.range.end.character)
  IN IF edit.new_text = <<>>
     THEN delete_range(text, start_byte, end_byte)
     ELSE insert_text(text, edit.new_text, start_byte)

\* ------------------------------------------------- the tree and its queries
\* The bytes the grammar reads as a PolicyId attribute (AttValue "X", "Y")
\* and as a base-policy reference (content X, Y, Z, and "" in quotes).
IdDecls == {"P", "Q"}
BaseRefs == {"p", "q", "r", "s"}

\* utf8_text of the node that starts at a byte: the AttValue keeps its quotes.
NodeText(c) ==
  CASE c = "P" -> <<"\"", "X", "\"">>
    [] c = "Q" -> <<"\"", "Y", "\"">>
    [] c = "p" -> <<"X">>
    [] c = "q" -> <<"Y">>
    [] c = "r" -> <<"Z">>
    [] c = "s" -> <<"\"", "\"">>
    [] OTHER -> <<c>>

\* String::replace("\"", "")
RECURSIVE RemoveQuotes(_)
RemoveQuotes(s) ==
  IF s = <<>> THEN <<>>
  ELSE IF Head(s) = "\"" THEN RemoveQuotes(Tail(s))
  ELSE <<Head(s)>> \o RemoveQuotes(Tail(s))

\* The point (row, column) of a byte offset: rows are counted in "\n".
PointAt(text, off) ==
  LET nls == {j \in 1..off : text[j] = NL}
      lastNl == IF nls = {} THEN 0 ELSE CHOOSE j \in nls : \A k \in nls : k <= j
  IN [row |-> Cardinality(nls), column |-> off - lastNl]

NodeAt(text, i) ==
  [capture |-> IF text[i] \in IdDecls THEN "policyId" ELSE "basePolicyId",
   start_byte |-> i - 1,
   end_byte |-> i,
   start_position |-> PointAt(text, i - 1),
   end_position |-> PointAt(text, i)]

\* Parser::parse on a text: the captured nodes in document order.  The
\* parser has its language set and neither timeout nor cancellation flag,
\* so parse returns a tree.
RECURSIVE ParseFrom(_, _)
ParseFrom(text, i) ==
  IF i > Len(text) THEN <<>>
  ELSE IF text[i] \in IdDecls \cup BaseRefs
       THEN <<NodeAt(text, i)>> \o ParseFrom(text, i + 1)
       ELSE ParseFrom(text, i + 1)

Parse(text) == ParseFrom(text, 1)

\* The matches of a query: the last capture of each match, in document order.
Matches(tree, capture) == SelectSeq(tree, LAMBDA n : n.capture = capture)

\* The matches whose node text can be read from the text (utf8_text is Ok).
Readable(text, ms) == SelectSeq(ms, LAMBDA n : n.end_byte <= Len(text))

CapturedText(text, n) == RemoveQuotes(NodeText(text[n.start_byte + 1]))

id_query(text, tree) ==
  LET ms == Readable(text, Matches(tree, "policyId"))
  IN IF ms = <<>> THEN None ELSE Some(CapturedText(text, ms[Len(ms)]))

base_policy_query(text, tree) ==
  LET ms == Readable(text, Matches(tree, "basePolicyId"))
  IN IF ms = <<>> THEN None ELSE Some(CapturedText(text, ms[Len(ms)]))

\* Both ends of the range are the node's start position.
NodeRange(n) ==
  [start |-> [line |-> n.start_position.row, character |-> n.start_position.column],
   end |-> [line |-> n.start_position.row, character |-> n.start_position.column]]

base_policy_query_range(text, tree) ==
  LET ms == Matches(tree, "basePolicyId")
  IN IF ms = <<>> THEN None ELSE Some(NodeRange(ms[Len(ms)]))

\* ---------------------------------------------------------------- IEFQuery
\* get_range of queries.rs: both ends are the node's start position.
get_range(n) ==
  [start |-> [line |-> n.start_position.row, character |-> n.start_position.column],
   end |-> [line |-> n.start_position.row, character |-> n.start_position.column]]

\* The chain of IEFQuery::first ended by last() in place of next().
IEFQueryLast(text, tree, capture) ==
  LET ms == Readable(text, Matches(tree, capture))
  IN IF ms = <<>> THEN None
     ELSE Some([txt |-> CapturedText(text, ms[Len(ms)]), range |-> get_range(ms[Len(ms)])])

\* IEFQuery::first: the matches in the cursor's order, those whose text can
\* be read made into IEFQueryMatch, and next() of that.
IEFQueryFirst(text, tree, capture) ==
  LET ms == Readable(text, Matches(tree, capture))
  IN IF ms = <<>> THEN None
     ELSE Some([txt |-> CapturedText(text, ms[1]), range |-> get_range(ms[1])])

\* ------------------------------------------------------------- IEF_Policy
\* IEF_Policy::new on the content read from a file: id is the empty string
\* when the document declares none.
NewPolicy(content) ==
  LET tree == Parse(content)
      idm == id_query(content, tree)
  IN [text |-> content,
      tree |-> tree,
      id |-> IF IsSome(idm) THEN Unwrap(idm) ELSE <<>>,
      base_id |-> base_policy_query(content, tree)]


\* -------------------------------------------------------------- locations
\* The .xml files of the workspace directory, and the documents a client
\* may name: the two files, a file outside the workspace, and a URI that
\* is no file path.
Paths == {"/w/a.xml", "/w/b.xml"}
Uris == {"file:///w/a.xml", "file:///w/b.xml", "file:///w/c.xml", "untitled:1"}

\* Url::to_file_path
to_file_path(uri) ==
  CASE uri = "file:///w/a.xml" -> Some("/w/a.xml")
    [] uri = "file:///w/b.xml" -> Some("/w/b.xml")
    [] uri = "file:///w/c.xml" -> Some("/w/c.xml")
    [] OTHER -> None

\* format!("file://{}", path)
to_uri(path) ==
  CASE path = "/w/a.xml" -> "file:///w/a.xml"
    [] path = "/w/b.xml" -> "file:///w/b.xml"
    [] OTHER -> "file:///w/c.xml"

\* ------------------------------------------------------------ handle_edit
\* The InputEdit handle_edit gives to Tree::edit.  byte_pos reads the text
\* before the edit.  lines().last().unwrap() panics on a text of no line.
InputEditOf(text, edit) ==
  LET start_line == edit.range.start.line
      start_char == edit.range.start.character
      end_line == edit.range.end.line
      end_char == edit.range.end.character
      nl == Lines(edit.new_text)
      new_lines == Len(nl)
      last_len == Len(nl[Len(nl)])
      new_chars == IF new_lines = 0 THEN last_len + start_char ELSE last_len
      new_bytes == Len(edit.new_text)
      new_end_line == IF edit.new_text = <<>> THEN start_line ELSE start_line + new_lines
      new_end_char == IF edit.new_text = <<>> THEN start_char ELSE new_chars
      new_end_add == IF edit.new_text = <<>> THEN 0 ELSE new_bytes
  IN IF edit.new_text # <<>> /\ nl = <<>> THEN None
     ELSE Some([start_byte |-> byte_pos(text, start_line, start_char),
                start_position |-> [row |-> start_line, column |-> start_char],
                old_end_byte |-> byte_pos(text, end_line, end_char),
                old_end_position |-> [row |-> end_line, column |-> end_char],
                new_end_byte |-> byte_pos(text, new_end_line, new_end_char) + new_end_add,
                new_end_position |-> [row |-> new_end_line, column |-> new_end_char]])

\* Parser::parse(text, Some(&tree)) on the edited tree: the tree of the text.
Reparse(text, old_tree) == Parse(text)

\* The end of handle_edit, once the policy is found: Tree::edit with the
\* InputEdit, TextSync::edit, then the reparse.  id and base_id are left as
\* they are.
EditPolicy(pols, path, delta, edited) ==
  IF delta = None \/ ~edited.ok
  THEN [res |-> "Panic", policies |-> pols, delta |-> delta]
  ELSE [res |-> "Ok",
        policies |-> [pols EXCEPT ![path] =
                        [@ EXCEPT !.text = edited.text,
                                  !.tree = Reparse(edited.text, @)]],
        delta |-> delta]

\* handle_edit taking the entry of the path, made of the edit's text when the
\* path has none, in place of looking the path up.
HandleEditAtOrInsert(pols, path, edit) ==
  IF path = None
  THEN [res |-> "Panic", policies |-> pols, delta |-> None]
  ELSE IF Unwrap(path) \notin DOMAIN pols
  THEN [res |-> "Ok",
        policies |-> [q \in DOMAIN pols \cup {Unwrap(path)} |->
                        IF q = Unwrap(path) THEN NewPolicy(edit.new_text) ELSE pols[q]],
        delta |-> None]
  ELSE EditPolicy(pols, Unwrap(path),
                  InputEditOf(pols[Unwrap(path)].text, edit),
                  TextSyncEdit(pols[Unwrap(path)].text, edit))

HandleEditAt(pols, path, edit) ==
  IF path = None
  THEN [res |-> "Panic", policies |-> pols, delta |-> None]
  ELSE IF Unwrap(path) \notin DOMAIN pols
  THEN [res |-> "Err", policies |-> pols, delta |-> None]
  ELSE EditPolicy(pols, Unwrap(path),
                  InputEditOf(pols[Unwrap(path)].text, edit),
                  TextSyncEdit(pols[Unwrap(path)].text, edit))

\* handle_edit on the workspace's policies: res is "Ok", "Err" (Document not
\* found) or "Panic" (to_file_path().unwrap() on a URI that is no file path,
\* or a panic further on).
handle_edit(pols, uri, edit) == HandleEditAt(pols, to_file_path(uri), edit)

\* ------------------------------------------------------- update_document
\* The changes as edits, one without range taken with the default range, the
\* start of the document.
RECURSIVE EditsWithDefaultRange(_)
EditsWithDefaultRange(changes) ==
  IF changes = <<>> THEN <<>>
  ELSE <<[range |-> IF Head(changes).range = None
                    THEN [start |-> [line |-> 0, character |-> 0],
                          end |-> [line |-> 0, character |-> 0]]
                    ELSE Unwrap(Head(changes).range),
          new_text |-> Head(changes).text]>>
       \o EditsWithDefaultRange(Tail(changes))

\* changes.iter().filter_map(..): the changes that carry a range, as edits.
RECURSIVE RangedEdits(_)
RangedEdits(changes) ==
  IF changes = <<>> THEN <<>>
  ELSE IF Head(changes).range = None THEN RangedEdits(Tail(changes))
  ELSE <<[range |-> Unwrap(Head(changes).range), new_text |-> Head(changes).text]>>
       \o RangedEdits(Tail(changes))

\* One turn of the loop: what handle_edit returned is logged, not acted on.
AfterEdit(st, r) ==
  [policies |-> r.policies,
   results |-> Append(st.results, r.res),
   deltas |-> Append(st.deltas, r.delta)]

\* The loop run from the last edit to the first.
RECURSIVE EditLoopBackwards(_, _, _)
EditLoopBackwards(st, uri, edits) ==
  IF edits = <<>> THEN st
  ELSE IF Len(st.results) > 0 /\ st.results[Len(st.results)] = "Panic" THEN st
  ELSE EditLoopBackwards(AfterEdit(st, handle_edit(st.policies, uri, edits[Len(edits)])),
                         uri, SubSeq(edits, 1, Len(edits) - 1))

\* The loop left after its first turn: the rest of the batch is not applied.
EditLoopFirstOnly(st, uri, edits) ==
  IF edits = <<>> THEN st
  ELSE AfterEdit(st, handle_edit(st.policies, uri, Head(edits)))

\* for edit in edits { self.handle_edit(document.clone(), &edit); }  A panic
\* ends the loop.  st = [policies, results, deltas].
RECURSIVE EditLoop(_, _, _)
EditLoop(st, uri, edits) ==
  IF edits = <<>> THEN st
  ELSE IF Len(st.results) > 0 /\ st.results[Len(st.results)] = "Panic" THEN st
  ELSE EditLoop(AfterEdit(st, handle_edit(st.policies, uri, Head(edits))),
                uri, Tail(edits))

UpdateResult(st) ==
  [policies |-> st.policies,
   results |-> st.results,
   deltas |-> st.deltas,
   ret |-> IF \E i \in 1..Len(st.results) : st.results[i] = "Panic"
           THEN "Panic" ELSE "Ok"]

\* update_document: the result of handle_edit is dropped and Ok(()) returned.
update_document(pols, uri, changes) ==
  UpdateResult(EditLoop([policies |-> pols, results |-> <<>>, deltas |-> <<>>],
                        uri, RangedEdits(changes)))

\* -------------------------------------------------------- get_diagnostics
\* The paths of the policies whose id is the given one; find returns one of them.
find_policy_by_id(pols, id) == {p \in DOMAIN pols : pols[p].id = id}

DanglingDiagnostic(range, base_id) ==
  [range |-> range,
   severity |-> "ERROR",
   source |-> "IEF_LSP",
   message |-> [format |-> "Policy with ID {} does not exist!", arg |-> base_id]]

\* The paths get_diagnostics keeps: a base_id that no policy's id equals, and
\* a range for it in the current tree.
Reported(pols) ==
  {p \in DOMAIN pols :
     /\ IsSome(pols[p].base_id)
     /\ find_policy_by_id(pols, Unwrap(pols[p].base_id)) = {}
     /\ IsSome(base_policy_query_range(pols[p].text, pols[p].tree))}

get_diagnostics(pols) ==
  [u \in {to_uri(p) : p \in Reported(pols)} |->
     LET p == CHOOSE q \in Reported(pols) : to_uri(q) = u
     IN <<DanglingDiagnostic(Unwrap(base_policy_query_range(pols[p].text, pols[p].tree)),
                             Unwrap(pols[p].base_id))>>]


\* ----------------------------------------------------------- new_workspace
\* A discovery that gives up on the whole directory when one file fails.
new_workspace_all_or_nothing(fs) ==
  IF \E q \in DOMAIN fs : fs[q] = None THEN <<>>
  ELSE [p \in DOMAIN fs |-> NewPolicy(Unwrap(fs[p]))]

\* IEF_Policy::new gives None for a file that cannot be read.
new_workspace(fs) ==
  [p \in {q \in DOMAIN fs : IsSome(fs[q])} |-> NewPolicy(Unwrap(fs[p]))]

\* ------------------------------------------------------ the server's inputs
\* What the files hold at discovery: the first file any of four texts, the
\* second a declaration of X.
InitTexts == {<<"P">>, <<"Q", NL, "p">>, <<"x", NL, "q">>, <<"x", NL, "s">>}
FileContents(path) == IF path = "/w/a.xml" THEN InitTexts ELSE {<<"P">>}
NewTexts == {<<>>, <<"Q", NL, "r">>}
FullTexts == {<<"x">>}
\* didOpen and didClose: a file of the workspace and one outside it.
OpenUris == {"file:///w/a.xml", "file:///w/c.xml"}
OpenTexts == {<<"P">>}
\* The ids find_policy_by_id is asked for: ids of documents, one that differs
\* from an id in case only, one that no document has, and the empty string.
AskedIds == {<<"X">>, <<"Y">>, <<"x">>, <<"Z">>, <<>>}

Positions == [line : 0..MaxLine, character : 0..MaxCol]
\* The ranges a client sends: the start is not after the end.
Ranges ==
  {r \in [start : Positions, end : Positions] :
     \/ r.start.line < r.end.line
     \/ r.start.line = r.end.line /\ r.start.character <= r.end.character}

\* TextDocumentContentChangeEvent: range is an Option.
Changes ==
  {[range |-> Some(r), text |-> t] : r \in Ranges, t \in NewTexts}
    \cup {[range |-> None, text |-> t] : t \in FullTexts}


\* params is what the message's parameters are: "ok" when they decode, else
\* what is wrong with them.
NoMessage ==
  [op |-> "init", params |-> "ok", uri |-> "", changes |-> <<>>, text |-> <<>>,
   id |-> <<>>, found |-> None, pre |-> <<>>, results |-> <<>>,
   deltas |-> <<>>, ret |-> "", diags |-> <<>>, sent |-> {}]

NoCall ==
  [op |-> "new", pre |-> <<>>, edit |-> <<>>, line |-> 0, character |-> 0,
   capture |-> "", found |-> None,
   ok |-> TRUE, result |-> [is_offset |-> TRUE, offset |-> 0]]

Init ==
  /\ files \in {f \in [Paths -> {None} \cup {Some(t) : t \in InitTexts}] :
                  \A p \in Paths : f[p] = None \/ Unwrap(f[p]) \in FileContents(p)}
  /\ policies = new_workspace(files)
  /\ status = "running"
  /\ last = NoMessage
  /\ nchanges = 0
  /\ raw_text = <<>>
  /\ sync_last = NoCall

\* ------------------------------------------------------ handle_notification
\* textDocument/didChange: update_document on the decoded parameters; its
\* result is dropped and no message is sent.
DidChange(uri, changes) ==
  /\ status = "running"
  /\ nchanges < MaxChanges
  /\ \E r \in {update_document(policies, uri, changes)} :
        /\ policies' = r.policies
        /\ status' = IF r.ret = "Panic" THEN "panicked" ELSE "running"
        /\ nchanges' = nchanges + 1
        /\ last' = [NoMessage EXCEPT !.op = "didChange", !.uri = uri,
                                     !.changes = changes, !.pre = policies,
                                     !.results = r.results, !.deltas = r.deltas,
                                     !.ret = r.ret]
  /\ UNCHANGED <<files, raw_text, sync_last>>

\* textDocument/didChange whose parameters are no DocumentChangeNotification:
\* serde_json::from_value(..).unwrap() panics.
DidChangeUndecodable ==
  /\ status = "running"
  /\ status' = "panicked"
  /\ last' = [NoMessage EXCEPT !.op = "didChange", !.params = "undecodable",
                               !.pre = policies, !.ret = "Panic"]
  /\ UNCHANGED <<policies, files, nchanges, raw_text, sync_last>>

\* textDocument/didOpen and textDocument/didClose: the method is logged.
DidOpen(uri, text) ==
  /\ status = "running"
  /\ last' = [NoMessage EXCEPT !.op = "didOpen", !.uri = uri, !.text = text,
                               !.pre = policies]
  /\ UNCHANGED <<policies, files, status, nchanges, raw_text, sync_last>>

DidClose(uri) ==
  /\ status = "running"
  /\ last' = [NoMessage EXCEPT !.op = "didClose", !.uri = uri, !.pre = policies]
  /\ UNCHANGED <<policies, files, status, nchanges, raw_text, sync_last>>

PublishDiagnostics(uri, diagnostics) ==
  [method |-> "textDocument/publishDiagnostics", uri |-> uri,
   items |-> diagnostics, related |-> <<>>]

\* textDocument/didSave: one publishDiagnostics per entry of get_diagnostics.
DidSave ==
  /\ status = "running"
  /\ \E d \in {get_diagnostics(policies)} :
        last' = [NoMessage EXCEPT !.op = "didSave", !.pre = policies, !.diags = d,
                   !.sent = {PublishDiagnostics(u, d[u]) : u \in DOMAIN d}]
  /\ UNCHANGED <<policies, files, status, nchanges, raw_text, sync_last>>

\* ----------------------------------------------------------- handle_request
\* textDocument/diagnostic with a string uri: the items of that uri, or none,
\* and every other entry of get_diagnostics as a related document.
DiagnosticReport(uri, d) ==
  [method |-> "response", uri |-> uri,
   items |-> IF uri \in DOMAIN d THEN d[uri] ELSE <<>>,
   related |-> [u \in DOMAIN d \ {uri} |-> d[u]]]

DiagnosticRequest(uri) ==
  /\ status = "running"
  /\ \E d \in {get_diagnostics(policies)} :
        last' = [NoMessage EXCEPT !.op = "diagnostic", !.uri = uri, !.pre = policies,
                   !.diags = d, !.sent = {DiagnosticReport(uri, d)}]
  /\ UNCHANGED <<policies, files, status, nchanges, raw_text, sync_last>>

\* textDocument/diagnostic without textDocument or without its uri: the
\* error response of code 400.
ErrorResponse(code, message) ==
  [method |-> "error", code |-> code, message |-> message]

DiagnosticRequestNoUri ==
  /\ status = "running"
  /\ last' = [NoMessage EXCEPT !.op = "diagnostic", !.params = "no_uri",
                               !.pre = policies,
                               !.sent = {ErrorResponse(400, "document uri is not defined")}]
  /\ UNCHANGED <<policies, files, status, nchanges, raw_text, sync_last>>

\* textDocument/diagnostic whose uri is no string: as_str().unwrap() panics.
DiagnosticRequestUriNotString ==
  /\ status = "running"
  /\ status' = "panicked"
  /\ last' = [NoMessage EXCEPT !.op = "diagnostic", !.params = "uri_not_string",
                               !.pre = policies, !.ret = "Panic"]
  /\ UNCHANGED <<policies, files, nchanges, raw_text, sync_last>>

\* find_policy_by_id called on the workspace: values().find gives one of the
\* policies whose id is the one asked for, whichever the map yields first.
FindPolicyById(id) ==
  /\ status = "running"
  /\ \E f \in (IF find_policy_by_id(policies, id) = {} THEN {None}
                ELSE {Some(p) : p \in find_policy_by_id(policies, id)}) :
        last' = [NoMessage EXCEPT !.op = "find", !.id = id, !.found = f,
                                  !.pre = policies]
  /\ UNCHANGED <<policies, files, status, nchanges, raw_text, sync_last>>

\* main_loop: one message is handled to its end before the next is read; a
\* panic of a handler ends the process.
Next ==
  \/ /\ status = "running"
     /\ nchanges < MaxChanges
     /\ \E uri \in Uris, n \in 0..MaxBatch :
          \E changes \in [1..n -> Changes] : DidChange(uri, changes)
  \/ DidChangeUndecodable
  \/ \E uri \in OpenUris, text \in OpenTexts : DidOpen(uri, text)
  \/ \E uri \in OpenUris : DidClose(uri)
  \/ DidSave
  \/ \E uri \in Uris : DiagnosticRequest(uri)
  \/ DiagnosticRequestNoUri
  \/ DiagnosticRequestUriNotString
  \/ \E id \in AskedIds : FindPolicyById(id)

Spec == Init /\ [][Next]_vars

\* ------------------------------------------------- a TextSync on its own
\* TextSync::new(text) followed by one call of edit or of byte_pos, as each
\* test of sync.rs makes it.
SyncAlphabet == {"x", NL, CR}
SyncTexts == UNION {[1..n -> SyncAlphabet] : n \in 0..MaxSyncLen}
SyncNewTexts == {<<>>, <<"x">>, <<NL>>, <<"x", NL, "x">>}
SyncPositions == [line : 0..MaxSyncLine, character : 0..MaxSyncCol]
SyncEdits == [range : [start : SyncPositions, end : SyncPositions],
              new_text : SyncNewTexts]

SyncInit ==
  /\ raw_text \in SyncTexts
  /\ sync_last = NoCall
  /\ files = <<>>
  /\ policies = <<>>
  /\ status = "running"
  /\ last = NoMessage
  /\ nchanges = 0

\* TextSync::edit; ok = FALSE is its panic.
SyncEdit(edit) ==
  /\ sync_last.op = "new"
  /\ \E r \in {TextSyncEdit(raw_text, edit)} :
        /\ raw_text' = IF r.ok THEN r.text ELSE raw_text
        /\ sync_last' = [NoCall EXCEPT !.op = "edit", !.pre = raw_text, !.edit = edit,
                                       !.ok = r.ok]
  /\ UNCHANGED <<policies, files, status, last, nchanges>>

\* TextSync::byte_pos returns a usize, whatever the position.
SyncBytePos(line, character) ==
  /\ sync_last.op = "new"
  /\ sync_last' = [NoCall EXCEPT !.op = "byte_pos", !.pre = raw_text, !.line = line,
                                 !.character = character,
                                 !.result = [is_offset |-> TRUE,
                                             offset |-> byte_pos(raw_text, line, character)]]
  /\ UNCHANGED <<policies, files, status, last, nchanges, raw_text>>

SyncNext ==
  \/ \E edit \in SyncEdits : SyncEdit(edit)
  \/ \E pos \in SyncPositions : SyncBytePos(pos.line, pos.character)

SyncSpec == SyncInit /\ [][SyncNext]_vars

\* ---------------------------------------------------- a query on its own
\* A text is parsed and IEFQuery::first of id_query() or base_policy_query()
\* is called on its tree, as the tests of queries.rs do.
QueryAlphabet == {"P", "Q", "p", "q", "x", NL}
QueryTexts == UNION {[1..n -> QueryAlphabet] : n \in 0..MaxQueryLen}
Queries == {"policyId", "basePolicyId"}

QueryInit ==
  /\ raw_text \in QueryTexts
  /\ sync_last = NoCall
  /\ files = <<>>
  /\ policies = <<>>
  /\ status = "running"
  /\ last = NoMessage
  /\ nchanges = 0

QueryFirst(capture) ==
  /\ sync_last.op = "new"
  /\ sync_last' = [NoCall EXCEPT !.op = "first", !.pre = raw_text, !.capture = capture,
                                 !.found = IEFQueryFirst(raw_text, Parse(raw_text), capture)]
  /\ UNCHANGED <<policies, files, status, last, nchanges, raw_text>>

QueryNext == \E capture \in Queries : QueryFirst(capture)

QuerySpec == QueryInit /\ [][QueryNext]_vars


\* ================================================================ claims
\* What the two fact queries give on a policy's current text and tree.
CurrentId(policy) ==
  IF IsSome(id_query(policy.text, policy.tree))
  THEN Unwrap(id_query(policy.text, policy.tree)) ELSE <<>>

CurrentBase(policy) == base_policy_query(policy.text, policy.tree)

\* The last message was a didChange for a tracked document.
EditedTracked ==
  /\ last.op = "didChange"
  /\ IsSome(to_file_path(last.uri))
  /\ Unwrap(to_file_path(last.uri)) \in DOMAIN last.pre

EditedPath == Unwrap(to_file_path(last.uri))

\* The last message asked for the diagnostics of the workspace.
Diagnosed == last.op \in {"didSave", "diagnostic"}

\* C1: after every edit event on a tracked document, its stored id and
\* base_id are what the identifier query and the base-reference query give
\* on its current text and tree.
C1_FactsFollowText ==
  (status = "running" /\ EditedTracked) =>
    /\ policies[EditedPath].id = CurrentId(policies[EditedPath])
    /\ policies[EditedPath].base_id = CurrentBase(policies[EditedPath])

\* A position of a text: a line of it and a column within that line.
ValidPosition(text, pos) ==
  /\ pos.line < Len(Lines(text))
  /\ pos.character <= Len(Lines(text)[pos.line + 1])

\* C2: an edit at valid positions with start <= end leaves raw_text equal to
\* the text before start_byte, then the replacement, then the text from
\* end_byte on, the offsets being those of the range in the text before.
C2_EditReplacesRange ==
  (/\ sync_last.op = "edit"
   /\ ValidPosition(sync_last.pre, sync_last.edit.range.start)
   /\ ValidPosition(sync_last.pre, sync_last.edit.range.end)
   /\ byte_pos(sync_last.pre, sync_last.edit.range.start.line,
               sync_last.edit.range.start.character)
        <= byte_pos(sync_last.pre, sync_last.edit.range.end.line,
                    sync_last.edit.range.end.character))
   => /\ sync_last.ok
      /\ raw_text =
           SubSeq(sync_last.pre, 1,
                  byte_pos(sync_last.pre, sync_last.edit.range.start.line,
                           sync_last.edit.range.start.character))
           \o sync_last.edit.new_text
           \o SubSeq(sync_last.pre,
                     byte_pos(sync_last.pre, sync_last.edit.range.end.line,
                              sync_last.edit.range.end.character) + 1,
                     Len(sync_last.pre))

\* C3: update_document for a location that is not in the index returns a
\* "document not found" error to its caller, never success.
C3_UnknownDocumentReported ==
  (/\ last.op = "didChange"
   /\ IsSome(to_file_path(last.uri))
   /\ Unwrap(to_file_path(last.uri)) \notin DOMAIN last.pre)
   => last.ret = "Err"

\* The paths whose current text declares the identifier id.
Declaring(id) == {p \in DOMAIN policies : id_query(policies[p].text, policies[p].tree) = Some(id)}

\* C4: a document whose current text has a base reference that no tracked
\* document's current text declares gets exactly one diagnostic: an Error at
\* the reference's range, with a message that names the reference.
C4_DanglingReferenceReported ==
  Diagnosed =>
    \A p \in DOMAIN policies :
      (IsSome(CurrentBase(policies[p])) /\ Declaring(Unwrap(CurrentBase(policies[p]))) = {})
        => /\ to_uri(p) \in DOMAIN last.diags
           /\ Len(last.diags[to_uri(p)]) = 1
           /\ last.diags[to_uri(p)][1].severity = "ERROR"
           /\ Some(last.diags[to_uri(p)][1].range)
                = base_policy_query_range(policies[p].text, policies[p].tree)
           /\ last.diags[to_uri(p)][1].message.arg = Unwrap(CurrentBase(policies[p]))

\* C5: a document whose current base reference is the current identifier of
\* a tracked document gets no dangling-reference diagnostic.
C5_ResolvedReferenceSilent ==
  Diagnosed =>
    \A p \in DOMAIN policies :
      (IsSome(CurrentBase(policies[p])) /\ Declaring(Unwrap(CurrentBase(policies[p]))) # {})
        => \/ to_uri(p) \notin DOMAIN last.diags
           \/ \A i \in 1..Len(last.diags[to_uri(p)]) :
                last.diags[to_uri(p)][i].message.format # "Policy with ID {} does not exist!"

\* null_range of queries.rs: the start of the document.
DocumentStart == [start |-> [line |-> 0, character |-> 0],
                  end |-> [line |-> 0, character |-> 0]]

\* C6: a tracked document that declares no identifier gets exactly one Error
\* diagnostic, at the start of the document, whatever its base reference.
C6_MissingIdentifierReported ==
  Diagnosed =>
    \A p \in DOMAIN policies :
      id_query(policies[p].text, policies[p].tree) = None
        => /\ to_uri(p) \in DOMAIN last.diags
           /\ Len(last.diags[to_uri(p)]) = 1
           /\ last.diags[to_uri(p)][1].severity = "ERROR"
           /\ last.diags[to_uri(p)][1].range = DocumentStart
           /\ last.diags[to_uri(p)][1].message.format # "Policy with ID {} does not exist!"

\* C7: the mapping of get_diagnostics has an entry for every tracked
\* document, and didSave publishes a list, possibly empty, for each.
C7_EveryDocumentHasEntry ==
  Diagnosed =>
    \A p \in DOMAIN policies :
      /\ to_uri(p) \in DOMAIN last.diags
      /\ last.op = "didSave" => \E m \in last.sent : m.uri = to_uri(p)

\* The texts a document goes through when the edits are applied one after
\* the other, each to the text the one before it left: texts[1] is the text
\* before the batch.
RECURSIVE TextsInOrder(_, _)
TextsInOrder(text, edits) ==
  IF edits = <<>> \/ ~TextSyncEdit(text, Head(edits)).ok THEN <<text>>
  ELSE <<text>> \o TextsInOrder(TextSyncEdit(text, Head(edits)).text, Tail(edits))

BatchTexts == TextsInOrder(last.pre[EditedPath].text, RangedEdits(last.changes))

\* C8: the edits of a batch are applied in the order given, and the range
\* of each is resolved to byte offsets in the text the earlier edits of the
\* batch left, not in the text before the batch.
C8_BatchInOrder ==
  EditedTracked =>
    /\ policies[EditedPath].text = BatchTexts[Len(BatchTexts)]
    /\ last.ret = "Ok" => Len(BatchTexts) = Len(RangedEdits(last.changes)) + 1
    /\ \A i \in 1..Len(last.deltas) :
         IsSome(last.deltas[i]) =>
           /\ i <= Len(BatchTexts)
           /\ Unwrap(last.deltas[i]).start_byte
                = byte_pos(BatchTexts[i], RangedEdits(last.changes)[i].range.start.line,
                           RangedEdits(last.changes)[i].range.start.character)
           /\ Unwrap(last.deltas[i]).old_end_byte
                = byte_pos(BatchTexts[i], RangedEdits(last.changes)[i].range.end.line,
                           RangedEdits(last.changes)[i].range.end.character)

\* A batch of two edits has been applied whose second range falls on another
\* byte in the text the first edit left than in the text before the batch,
\* and whose result differs from that of the two edits in the other order.
C8_Witness ==
  /\ EditedTracked
  /\ last.ret = "Ok"
  /\ Len(last.deltas) = 2
  /\ Unwrap(last.deltas[2]).start_byte
       # byte_pos(last.pre[EditedPath].text, RangedEdits(last.changes)[2].range.start.line,
                  RangedEdits(last.changes)[2].range.start.character)
  /\ \E other \in {TextsInOrder(last.pre[EditedPath].text,
                                  <<RangedEdits(last.changes)[2],
                                    RangedEdits(last.changes)[1]>>)} :
        Len(other) = 3 /\ other[3] # policies[EditedPath].text

\* The line breaks of a text, and the length of what follows the last one.
LineBreaks(t) == Cardinality({j \in 1..Len(t) : t[j] = NL})
AfterLastBreak(t) ==
  Len(t) - (CHOOSE j \in 0..Len(t) :
              /\ j = 0 \/ t[j] = NL
              /\ \A k \in (j + 1)..Len(t) : t[k] # NL)

\* C9: for a non-empty insertion the new-end position of the InputEdit has
\* line start.line + k, k the line breaks of the inserted text, and column
\* the length after the last line break, or start.column + length when the
\* text has no line break.
C9_NewEndPosition ==
  last.op = "didChange" =>
    \A i \in 1..Len(last.deltas) :
      (IsSome(last.deltas[i]) /\ RangedEdits(last.changes)[i].new_text # <<>>) =>
        /\ Unwrap(last.deltas[i]).new_end_position.row
             = RangedEdits(last.changes)[i].range.start.line
               + LineBreaks(RangedEdits(last.changes)[i].new_text)
        /\ Unwrap(last.deltas[i]).new_end_position.column
             = IF LineBreaks(RangedEdits(last.changes)[i].new_text) = 0
               THEN RangedEdits(last.changes)[i].range.start.character
                    + Len(RangedEdits(last.changes)[i].new_text)
               ELSE AfterLastBreak(RangedEdits(last.changes)[i].new_text)

\* C10: byte_pos gives an explicit failure, never an offset, when the line
\* asked for exceeds the number of lines of the text.
C10_BytePosFailsPastLastLine ==
  (sync_last.op = "byte_pos" /\ sync_last.line > lines(sync_last.pre))
    => ~sync_last.result.is_offset


\* A position whose line lies after the line of the text's last line break:
\* the text has no such line, however its end is read.
BeyondExtent(text, pos) == pos.line > LineBreaks(text)

\* C11: an edit whose range has a position on a line beyond the document's
\* extent is not applied: no InputEdit derived from it reaches the tree, and
\* the document's text, tree and facts are after it what they were before.
C11_MalformedPositionNotApplied ==
  EditedTracked =>
    \A i \in 1..Len(RangedEdits(last.changes)) :
      (/\ i <= Len(BatchTexts)
       /\ \/ BeyondExtent(BatchTexts[i], RangedEdits(last.changes)[i].range.start)
          \/ BeyondExtent(BatchTexts[i], RangedEdits(last.changes)[i].range.end))
      => /\ i <= Len(last.deltas) => last.deltas[i] = None
         /\ i + 1 <= Len(BatchTexts) => BatchTexts[i + 1] = BatchTexts[i]
         /\ Len(RangedEdits(last.changes)) = 1
              => policies[EditedPath] = last.pre[EditedPath]


\* The last didChange carried exactly one edit with a range, for a tracked
\* document.
OneEdit == EditedTracked /\ Len(RangedEdits(last.changes)) = 1
TheEdit == RangedEdits(last.changes)[1]

\* The edit is zero-width at a valid position and replaces it by nothing.
NoOpEdit ==
  /\ OneEdit
  /\ TheEdit.new_text = <<>>
  /\ TheEdit.range.start = TheEdit.range.end
  /\ ValidPosition(last.pre[EditedPath].text, TheEdit.range.start)

\* C13: a zero-width edit with an empty replacement, at a valid position of
\* a tracked document, leaves the document's text, tree and facts unchanged.
C13_NoOpEditChangesNothing ==
  NoOpEdit => /\ last.ret = "Ok"
              /\ policies[EditedPath] = last.pre[EditedPath]

\* Such an edit has been handled at the end of the second line of a document
\* whose tree has nodes.
C13_Witness ==
  /\ NoOpEdit
  /\ TheEdit.range.start = [line |-> 1, character |-> 1]
  /\ Len(policies[EditedPath].tree) = 2
  /\ status = "running"


\* The last message was malformed: a diagnostic request without a uri or
\* with a uri that is no string, a didChange whose parameters do not decode,
\* or a didChange with an edit for a URI that is no file path.
Malformed ==
  \/ last.op = "diagnostic" /\ last.params \in {"no_uri", "uri_not_string"}
  \/ last.op = "didChange" /\ last.params = "undecodable"
  \/ /\ last.op = "didChange"
     /\ last.params = "ok"
     /\ to_file_path(last.uri) = None
     /\ RangedEdits(last.changes) # <<>>

\* C14: every malformed message is answered with a reported error and leaves
\* the main loop running, ready for the next message.
C14_MalformedEventReported ==
  Malformed => /\ status = "running"
               /\ \E m \in last.sent : m.method = "error"


\* The URIs of the documents the workspace tracked when the last message
\* arrived.
TrackedUris == {to_uri(p) : p \in DOMAIN last.pre}

\* C15: a diagnostic request for a document the workspace does not track is
\* answered with a "not found" error, never with a successful report.
C15_UntrackedDiagnosticNotFound ==
  (last.op = "diagnostic" /\ last.params = "ok" /\ last.uri \notin TrackedUris)
    => /\ last.sent # {}
       /\ \A m \in last.sent : m.method = "error"

\* C16: after didOpen for an untracked location the workspace tracks a
\* document of the opened text at that location, and after didClose it
\* tracks none there.
C16_OpenCloseLifecycle ==
  /\ (/\ last.op = "didOpen"
      /\ IsSome(to_file_path(last.uri))
      /\ Unwrap(to_file_path(last.uri)) \notin DOMAIN last.pre)
     => /\ Unwrap(to_file_path(last.uri)) \in DOMAIN policies
        /\ policies[Unwrap(to_file_path(last.uri))].text = last.text
  /\ (last.op = "didClose" /\ IsSome(to_file_path(last.uri)))
     => Unwrap(to_file_path(last.uri)) \notin DOMAIN policies


\* The workspace after the edits of a batch, each applied by handle_edit to
\* the workspace the one before it left.
RECURSIVE InOrder(_, _, _)
InOrder(pols, uri, edits) ==
  IF edits = <<>> THEN pols
  ELSE InOrder(handle_edit(pols, uri, Head(edits)).policies, uri, Tail(edits))

QueryNodes ==
  {n \in {Parse(sync_last.pre)[i] : i \in 1..Len(Parse(sync_last.pre))} :
     n.capture = sync_last.capture}

\* What IEFQuery::first gives for a node: its text without quotes, and the
\* position where it starts.
MatchOf(n) ==
  [txt |-> RemoveQuotes(NodeText(sync_last.pre[n.start_byte + 1])),
   start |-> [line |-> n.start_position.row, character |-> n.start_position.column]]

Found == [txt |-> Unwrap(sync_last.found).txt, start |-> Unwrap(sync_last.found).range.start]

\* C18 as stated: IEFQuery::first returns the match that comes last in
\* document order, and none exactly when the pattern has no match.
C18_FirstReturnsLastMatch ==
  sync_last.op = "first" =>
    /\ sync_last.found = None <=> QueryNodes = {}
    /\ QueryNodes # {} =>
         \E n \in QueryNodes :
           /\ \A m \in QueryNodes : m.start_byte <= n.start_byte
           /\ Found = MatchOf(n)

\* C18 amended: IEFQuery::first returns the match that comes first in
\* document order, and none exactly when the pattern has no match.
C18_FirstReturnsFirstMatch ==
  sync_last.op = "first" =>
    /\ sync_last.found = None <=> QueryNodes = {}
    /\ QueryNodes # {} =>
         \E n \in QueryNodes :
           /\ \A m \in QueryNodes : n.start_byte <= m.start_byte
           /\ Found = MatchOf(n)

\* first has been called on a text where the pattern matches twice, with
\* different texts.
C18_Witness ==
  /\ sync_last.op = "first"
  /\ IsSome(sync_last.found)
  /\ \E n, m \in QueryNodes : MatchOf(n).txt # MatchOf(m).txt


\* C19: find_policy_by_id returns a document exactly when some tracked
\* document declares an identifier equal to the id asked for, letter case
\* included, and the document it returns declares that identifier, also when
\* several documents declare it.
C19_FindByExactId ==
  last.op = "find" =>
    /\ IsSome(last.found) <=> Declaring(last.id) # {}
    /\ IsSome(last.found) => Unwrap(last.found) \in Declaring(last.id)


\* The bytes of a text that precede a position: those up to and including
\* the line break that ends the line before, then the column.
BytesBefore(text, line, character) ==
  (IF line = 0 THEN 0
   ELSE CHOOSE j \in 1..Len(text) :
          /\ text[j] = NL
          /\ Cardinality({i \in 1..j : text[i] = NL}) = line)
  + character

\* C20: for a valid position, byte_pos(line, column) is the number of bytes
\* of raw_text before that position: for each earlier line its length and
\* the length of its terminator, plus the column.
C20_BytePosCountsBytesBefore ==
  (/\ sync_last.op = "byte_pos"
   /\ ValidPosition(sync_last.pre, [line |-> sync_last.line,
                                    character |-> sync_last.character]))
    => sync_last.result.offset
         = BytesBefore(sync_last.pre, sync_last.line, sync_last.character)

\* The position of a byte offset in a text: the line is the number of line
\* breaks before it, the column the bytes since the last of them.
PositionOfByte(text, off) ==
  [line |-> Cardinality({j \in 1..off : text[j] = NL}),
   character |-> off - (CHOOSE j \in 0..off :
                          /\ j = 0 \/ text[j] = NL
                          /\ \A k \in (j + 1)..off : text[k] # NL)]

ValidPositions(text) ==
  {pos \in SyncPositions : ValidPosition(text, pos)}

\* C21: for a valid position of a text, the position of the byte offset
\* byte_pos gives for it is that position again, and no other valid position
\* of the text has the same offset.
C21_PositionRoundTrip ==
  (/\ sync_last.op = "byte_pos"
   /\ ValidPosition(sync_last.pre, [line |-> sync_last.line,
                                    character |-> sync_last.character]))
    => /\ sync_last.result.offset <= Len(sync_last.pre)
       /\ PositionOfByte(sync_last.pre, sync_last.result.offset)
            = [line |-> sync_last.line, character |-> sync_last.character]
       /\ \A pos \in ValidPositions(sync_last.pre) :
            byte_pos(sync_last.pre, pos.line, pos.character) = sync_last.result.offset
              => pos = [line |-> sync_last.line, character |-> sync_last.character]

\* The offsets byte_pos gives for the range of the last edit, in the text
\* before it.
EditStartByte ==
  byte_pos(sync_last.pre, sync_last.edit.range.start.line,
           sync_last.edit.range.start.character)
EditEndByte ==
  byte_pos(sync_last.pre, sync_last.edit.range.end.line,
           sync_last.edit.range.end.character)

\* The last call was an edit at valid positions, the start not after the
\* end, that only deletes (empty replacement) or only inserts (zero-width
\* range).
PureEdit ==
  /\ sync_last.op = "edit"
  /\ ValidPosition(sync_last.pre, sync_last.edit.range.start)
  /\ ValidPosition(sync_last.pre, sync_last.edit.range.end)
  /\ \/ sync_last.edit.range.start.line < sync_last.edit.range.end.line
     \/ /\ sync_last.edit.range.start.line = sync_last.edit.range.end.line
        /\ sync_last.edit.range.start.character <= sync_last.edit.range.end.character
  /\ \/ sync_last.edit.new_text = <<>>
     \/ sync_last.edit.range.start = sync_last.edit.range.end

C23_DiscoverySkipsUnreadable ==
  /\ DOMAIN policies = {p \in DOMAIN files : IsSome(files[p])}
  /\ last.op = "init" =>
       \A p \in DOMAIN policies :
         /\ policies[p].text = Unwrap(files[p])
         /\ policies[p].tree = Parse(Unwrap(files[p]))

\* The workspace as discovered, one file unreadable and the other tracked.
C23_Witness ==
  /\ last.op = "init"
  /\ files["/w/a.xml"] = None
  /\ DOMAIN policies = {"/w/b.xml"}
  /\ policies["/w/b.xml"].text = <<"P">>

\* The node of a policy's tree that the base-reference query matches last,
\* and the source range of a node, from its start to its end.
LastBaseNode(policy) ==
  CHOOSE n \in {policy.tree[i] : i \in 1..Len(policy.tree)} :
    /\ n.capture = "basePolicyId"
    /\ \A i \in 1..Len(policy.tree) :
         policy.tree[i].capture = "basePolicyId" => policy.tree[i].start_byte <= n.start_byte

SourceRange(n) ==
  [start |-> [line |-> n.start_position.row, character |-> n.start_position.column],
   end |-> [line |-> n.end_position.row, character |-> n.end_position.column]]

\* C24: the range of a dangling-reference diagnostic is the source range of
\* the captured node, from the node's start position to its end position,
\* and is not zero-width for a node that is not empty.
C24_MatchRangeIsNodeRange ==
  Diagnosed =>
    \A p \in DOMAIN policies :
      to_uri(p) \in DOMAIN last.diags =>
        /\ last.diags[to_uri(p)][1].range = SourceRange(LastBaseNode(policies[p]))
        /\ last.diags[to_uri(p)][1].range.start # last.diags[to_uri(p)][1].range.end

\* C25: the InputEdit handle_edit gives to the tree for an edit describes
\* what the edit did to the text: start_byte <= old_end_byte, new_end_byte is
\* start_byte plus the length of the replacement, and the text after has the
\* length of the text before, less the replaced bytes, plus the new ones.
C25_InputEditDescribesChange ==
  EditedTracked =>
    \A i \in 1..Len(last.deltas) :
      (IsSome(last.deltas[i]) /\ i + 1 <= Len(BatchTexts)) =>
        /\ Unwrap(last.deltas[i]).start_byte <= Unwrap(last.deltas[i]).old_end_byte
        /\ Unwrap(last.deltas[i]).new_end_byte
             = Unwrap(last.deltas[i]).start_byte + Len(RangedEdits(last.changes)[i].new_text)
        /\ Len(BatchTexts[i + 1])
             = Len(BatchTexts[i])
               - (Unwrap(last.deltas[i]).old_end_byte - Unwrap(last.deltas[i]).start_byte)
               + (Unwrap(last.deltas[i]).new_end_byte - Unwrap(last.deltas[i]).start_byte)

\* C26: find_policy_by_id never returns a document that declares no
\* identifier, and a document whose base reference is the empty text gets
\* its dangling-reference diagnostic: no document without PolicyId resolves
\* it.
C26_NoIdentifierNeverFound ==
  /\ (last.op = "find" /\ IsSome(last.found)) =>
       IsSome(id_query(policies[Unwrap(last.found)].text,
                       policies[Unwrap(last.found)].tree))
  /\ Diagnosed =>
       \A p \in DOMAIN policies :
         (CurrentBase(policies[p]) = Some(<<>>) /\ Declaring(<<>>) = {})
           => to_uri(p) \in DOMAIN last.diags

\* C27: a didChange handled to its end leaves the set of tracked paths as
\* it was and every document but the one it names unchanged, and one that
\* names an untracked location leaves the whole workspace unchanged.
C27_OtherDocumentsUnchanged ==
  (last.op = "didChange" /\ last.params = "ok" /\ status = "running") =>
    /\ DOMAIN policies = DOMAIN last.pre
    /\ \A p \in DOMAIN policies \cap DOMAIN last.pre :
         to_file_path(last.uri) # Some(p) => policies[p] = last.pre[p]
    /\ ~EditedTracked => policies = last.pre

\* A didChange has changed the text of one of two tracked documents.
C27_Witness ==
  /\ EditedTracked
  /\ status = "running"
  /\ Cardinality(DOMAIN policies) = 2
  /\ policies[EditedPath].text # last.pre[EditedPath].text

\* The changes of the last didChange that carry a range, in the order they
\* came, each as the edit it asks for.
ChangesWithRange == SelectSeq(last.changes, LAMBDA c : c.range # None)
EditsAskedFor ==
  [i \in 1..Len(ChangesWithRange) |->
     [range |-> Unwrap(ChangesWithRange[i].range), new_text |-> ChangesWithRange[i].text]]

\* C28: a change without range is dropped: a batch of such changes alone
\* leaves the document as it was, and in a mixed batch the document ends as
\* the changes that carry a range leave it, applied in the order they came.
C28_RangelessChangeDropped ==
  (EditedTracked /\ status = "running") =>
    /\ ChangesWithRange = <<>> => policies[EditedPath] = last.pre[EditedPath]
    /\ policies = InOrder(last.pre, last.uri, EditsAskedFor)
    /\ Len(last.results) = Len(ChangesWithRange)

\* A batch of a change without range followed by one with a range has been
\* handled, and the document's text has changed.
C28_Witness ==
  /\ EditedTracked
  /\ status = "running"
  /\ Len(last.changes) = 2
  /\ last.changes[1].range = None
  /\ last.changes[2].range # None
  /\ policies[EditedPath].text # last.pre[EditedPath].text


====
